---- MODULE Spec2Model ----
(***************************************************************************)
(* Phase-routed conversational agent: the LangGraph workflow of            *)
(* workflow/workflow.py, the HTTP handlers of app.py that run it           *)
(* (stateless /chat, stateful /chat/stateful, session endpoints) and the   *)
(* in-memory SessionStore of services/session_store.py.                    *)
(***************************************************************************)
EXTENDS Integers, Sequences, FiniteSets, TLC

\* ------------------------------------------------------------------ bounds
\* Session objects ever created (uuid4 identifiers are modelled as 1..MaxSessions).
MaxSessions == 1
\* A stateful turn on an existing session starts only while the sessions in
\* the store hold at most MaxHistory ChatMessages after it.
MaxHistory == 5
\* The clock stops advancing here (minutes).
MaxTime == 61
\* Direct callers of the store append while it holds fewer messages than this.
MaxStoreMessages == 1
\* The vectors the FAISS index holds at most (more than the default k).
MaxIndex == 6

\* ------------------------------------------------------- program constants
\* config={"recursion_limit": 50}
RecursionLimit == 50
\* SessionStore(session_timeout_minutes=60)
SessionTimeout == 60
\* def search(self, query: str, k: int = 5)
DefaultK == 5

\* ------------------------------------------------------------------ values
\* Python's None, for an Optional[UserProfile] and for an Optional[str] phase.
None == [none |-> TRUE]
NoPhase == "<None>"

\* UserProfile: seven required string fields.
Fields ==
    {"first_name", "last_name", "national_id", "gender", "date_of_birth",
     "hmo", "insurance_tier"}

\* A dict of string values over the keys S, all describing the person `who`.
ProfileData(S, who) == [f \in S |-> who]

\* UserProfile(**data): raises unless every required field is present;
\* keys that are no field of the model are ignored.
UserProfileValid(data) == Fields \subseteq DOMAIN data
UserProfile(data) == [f \in Fields |-> data[f]]

\* Python truthiness of an Optional[str] / Optional[UserProfile].
TruthyStr(s) == s /= NoPhase /\ s /= ""
TruthyProfile(p) == p /= None

\* ---------------------------------------------------------------- messages
\* A LangChain message: HumanMessage ("human"), AIMessage ("ai") or
\* ToolMessage ("tool").  tool_calls is TRUE when the tool_calls list is not
\* empty.  json is the decoded content of a ToolMessage that carries JSON
\* ([is_json |-> FALSE] when the content is no JSON document).
NoJson == [is_json |-> FALSE]
Json(data) == [is_json |-> TRUE, data |-> data]
Message(id, type, content, tool_calls, json) ==
    [id |-> id, type |-> type, content |-> content, tool_calls |-> tool_calls,
     json |-> json]
HumanMessage(content) == Message(0, "human", content, FALSE, NoJson)
AIMessage(content, tool_calls) == Message(0, "ai", content, tool_calls, NoJson)
ToolMessage(content, json) == Message(0, "tool", content, FALSE, json)

\* ChatMessage(role, content) of models/schemas.py.
ChatMessage(role, content) == [role |-> role, content |-> content]

WelcomeText == "welcome"
ApologyText == "apology"

\* ------------------------------------------------------------ add_messages
\* The reducer of WorkflowState.messages: a message without id gets a fresh
\* one; a message whose id is already in the list replaces that entry in
\* place, any other message is appended.
RECURSIVE add_messages(_, _)
add_messages(left, right) ==
    IF right = <<>> THEN left
    ELSE LET m == Head(right)
             hit == {i \in 1..Len(left) : m.id /= 0 /\ left[i].id = m.id}
         IN  IF hit /= {}
             THEN add_messages([left EXCEPT ![CHOOSE i \in hit : TRUE] = m], Tail(right))
             ELSE add_messages(
                      Append(left, IF m.id = 0 THEN [m EXCEPT !.id = Len(left) + 1] ELSE m),
                      Tail(right))

\* ----------------------------------------------------------- WorkflowState
\* WorkflowState: messages (merged by add_messages), user_profile and phase
\* (plain channels: a node's update overwrites them when it names the key).
WorkflowState(messages, user_profile, phase) ==
    [messages |-> messages, user_profile |-> user_profile, phase |-> phase]

\* The dict a node returns; keys is the set of keys the dict holds.
Update(keys, messages, user_profile, phase) ==
    [keys |-> keys, messages |-> messages, user_profile |-> user_profile,
     phase |-> phase]

\* Mutant of ApplyUpdate: a profile of None in an update keeps the old one.
ApplyUpdate_merges_profile(state, upd) ==
    [messages |-> IF "messages" \in upd.keys
                  THEN add_messages(state.messages, upd.messages)
                  ELSE state.messages,
     user_profile |-> IF "user_profile" \in upd.keys /\ upd.user_profile /= None
                      THEN upd.user_profile
                      ELSE state.user_profile,
     phase |-> IF "phase" \in upd.keys THEN upd.phase ELSE state.phase]

ApplyUpdate(state, upd) ==
    [messages |-> IF "messages" \in upd.keys
                  THEN add_messages(state.messages, upd.messages)
                  ELSE state.messages,
     user_profile |-> IF "user_profile" \in upd.keys THEN upd.user_profile
                      ELSE state.user_profile,
     phase |-> IF "phase" \in upd.keys THEN upd.phase ELSE state.phase]

LastMessage(state) == state.messages[Len(state.messages)]

\* ------------------------------------------------------------------- nodes
END == "__end__"
Nodes ==
    {"entry_point", "collector_agent", "handle_extraction_tool", "qa_agent",
     "handle_search_tool"}

\* Mutant of entry_point: the router writes the default phase.
entry_point_resets_phase(state) == Update({"messages", "phase"}, <<>>, None, "collection")

entry_point(state) == Update({"messages"}, <<>>, None, NoPhase)

\* Mutant of collector_agent: the model's response is not returned.
collector_agent_silent(state, response) ==
    Update({"messages", "user_profile", "phase"}, <<>>,
           state.user_profile, state.phase)

collector_agent(state, response) ==
    Update({"messages", "user_profile", "phase"}, <<response>>,
           state.user_profile, state.phase)

\* Mutants of qa_agent: the node writes the phase collection, or forgets the
\* profile.
qa_agent_resets_phase(state, response) ==
    Update({"messages", "user_profile", "phase"}, <<response>>,
           state.user_profile, "collection")
qa_agent_drops_profile(state, response) ==
    Update({"messages", "phase"}, <<response>>, None, state.phase)

qa_agent(state, response) ==
    Update({"messages", "user_profile", "phase"}, <<response>>,
           state.user_profile, state.phase)

\* Mutant of handle_extraction_tool: the phase advances only when the profile
\* parsed.
handle_extraction_tool_keeps_phase(state, tool_content) ==
    LET parsed == tool_content.is_json /\ UserProfileValid(tool_content.data)
    IN  Update({"messages", "user_profile", "phase"},
               <<ToolMessage("", tool_content)>>,
               IF parsed THEN UserProfile(tool_content.data) ELSE None,
               IF parsed THEN "qa" ELSE state.phase)

\* tool_content is the decoded content of the ToolMessage the extraction
\* ToolNode produced; json.loads or UserProfile(**data) raising is caught.
handle_extraction_tool(state, tool_content) ==
    LET tool_messages == <<ToolMessage("", tool_content)>>
        parsed == tool_content.is_json /\ UserProfileValid(tool_content.data)
        user_profile == IF parsed THEN UserProfile(tool_content.data) ELSE None
    IN  Update({"messages", "user_profile", "phase"}, tool_messages,
               user_profile, "qa")

\* Mutant of handle_search_tool: the update also names user_profile.
handle_search_tool_clears_profile(state, tool_text) ==
    Update({"messages", "user_profile"}, <<ToolMessage(tool_text, NoJson)>>,
           None, NoPhase)

handle_search_tool(state, tool_text) ==
    Update({"messages"}, <<ToolMessage(tool_text, NoJson)>>, None, NoPhase)

\* ----------------------------------------------------------------- routing
\* Mutant of route_from_entry: a missing phase defaults to qa.
route_from_entry_default_qa(state) ==
    LET phase == IF TruthyStr(state.phase) THEN state.phase ELSE "qa"
    IN  IF phase = "qa" THEN "qa_agent" ELSE "collector_agent"

\* Mutant of route_from_entry: every run starts at the collector.
route_from_entry_always_collector(state) == "collector_agent"

route_from_entry(state) ==
    LET phase == IF TruthyStr(state.phase) THEN state.phase ELSE "collection"
    IN  IF phase = "qa" THEN "qa_agent" ELSE "collector_agent"

route_after_collector(state) ==
    LET last_message == LastMessage(state)
    IN  IF last_message.type = "ai" /\ last_message.tool_calls
        THEN "handle_extraction_tool"
        ELSE IF last_message.type /= "human" THEN END
        ELSE "collector_agent"

\* Mutant of route_after_qa: content text makes the message a final answer.
route_after_qa_text_ends(state) ==
    LET last_message == LastMessage(state)
    IN  IF last_message.type = "ai" /\ last_message.tool_calls
           /\ last_message.content = ""
        THEN "handle_search_tool"
        ELSE IF last_message.type /= "human" THEN END
        ELSE "qa_agent"

route_after_qa(state) ==
    LET last_message == LastMessage(state)
    IN  IF last_message.type = "ai" /\ last_message.tool_calls
        THEN "handle_search_tool"
        ELSE IF last_message.type /= "human" THEN END
        ELSE "qa_agent"

\* add_conditional_edges(source, path, path_map): the value the path function
\* returns is looked up among the declared destinations.
NoDestination == "<KeyError>"
Branch(result, path_map) == IF result \in path_map THEN result ELSE NoDestination

\* Mutant of NextNode: handle_extraction_tool is wired to END.
NextNode_extraction_ends(node, state) ==
    CASE node = "entry_point" ->
             Branch(route_from_entry(state), {"collector_agent", "qa_agent"})
      [] node = "collector_agent" ->
             Branch(route_after_collector(state), {"handle_extraction_tool", END})
      [] node = "handle_extraction_tool" -> END
      [] node = "qa_agent" ->
             Branch(route_after_qa(state), {"handle_search_tool", END})
      [] node = "handle_search_tool" -> "qa_agent"

\* Mutant of NextNode: handle_search_tool is wired back to the collector.
NextNode_search_to_collector(node, state) ==
    CASE node = "entry_point" ->
             Branch(route_from_entry(state), {"collector_agent", "qa_agent"})
      [] node = "collector_agent" ->
             Branch(route_after_collector(state), {"handle_extraction_tool", END})
      [] node = "handle_extraction_tool" -> "qa_agent"
      [] node = "qa_agent" ->
             Branch(route_after_qa(state), {"handle_search_tool", END})
      [] node = "handle_search_tool" -> "collector_agent"

\* The edges of build_workflow: the node that runs after `node`.
NextNode(node, state) ==
    CASE node = "entry_point" ->
             Branch(route_from_entry(state), {"collector_agent", "qa_agent"})
      [] node = "collector_agent" ->
             Branch(route_after_collector(state), {"handle_extraction_tool", END})
      [] node = "handle_extraction_tool" -> "qa_agent"
      [] node = "qa_agent" ->
             Branch(route_after_qa(state), {"handle_search_tool", END})
      [] node = "handle_search_tool" -> "qa_agent"

\* --------------------------------------------------------------- one run
\* compiled_workflow.stream(initial_state, config={"recursion_limit": 50}):
\* input is the caller's initial_state, state the graph state, node the node
\* that ran last, path the nodes that ran, in order, next the node the edges
\* chose, steps the supersteps taken,
\* final the last chunk streamed ({node: update}), status running / done /
\* error.
StartRun(initial_state) ==
    [input |-> initial_state,
     state |-> WorkflowState(add_messages(<<>>, initial_state.messages),
                             initial_state.user_profile, initial_state.phase),
     node |-> "__start__", path |-> <<>>, next |-> "entry_point", steps |-> 0,
     status |-> "running", final |-> None, error |-> ""]

NoRun ==
    [input |-> WorkflowState(<<>>, None, NoPhase),
     state |-> WorkflowState(<<>>, None, NoPhase), node |-> "", path |-> <<>>,
     next |-> "",
     steps |-> 0, status |-> "none", final |-> None, error |-> ""]

\* The superstep that runs wf.next and yields its update.
RunNode(wf, upd) ==
    LET state == ApplyUpdate(wf.state, upd)
        next == NextNode(wf.next, state)
    IN  [input |-> wf.input, state |-> state, node |-> wf.next,
         path |-> Append(wf.path, wf.next), next |-> next,
         steps |-> wf.steps + 1,
         status |-> IF next = END THEN "done"
                    ELSE IF next = NoDestination THEN "error" ELSE "running",
         final |-> [node |-> wf.next, update |-> upd],
         error |-> IF next = NoDestination THEN "KeyError" ELSE ""]

FailRun(wf, error) == [wf EXCEPT !.status = "error", !.error = error]

\* Mutant of CanStep: the budget is not looked at.
CanStep_no_budget(wf) == wf.status = "running"

\* The step budget: a superstep starts only while fewer than recursion_limit
\* have been taken.
CanStep(wf) == wf.status = "running" /\ wf.steps < RecursionLimit
OutOfSteps(wf) == wf.status = "running" /\ wf.steps >= RecursionLimit

\* ------------------------------------------------- extracting the response
Max(S) == CHOOSE x \in S : \A y \in S : y <= x

extract_response_from_workflow_result(final_state) ==
    LET node_update == final_state.update
        messages == node_update.messages
        ai == {i \in 1..Len(messages) : messages[i].type = "ai"}
    IN  [response_message |->
             IF "messages" \in node_update.keys /\ ai /= {}
             THEN messages[Max(ai)].content ELSE "",
         user_profile |->
             IF "user_profile" \in node_update.keys
                /\ TruthyProfile(node_update.user_profile)
             THEN node_update.user_profile ELSE None,
         phase |->
             IF "phase" \in node_update.keys /\ TruthyStr(node_update.phase)
             THEN node_update.phase ELSE "collection"]

\* ------------------------------------------------------------ SessionStore
\* ChatSession of models/schemas.py; session_id stands for the uuid4 string
\* (created_at, which nothing reads back but GET /sessions, is left out).
ChatSession(session_id, t) ==
    [session_id |-> session_id, conversation_history |-> <<>>,
     user_profile |-> None, current_phase |-> "collection",
     last_activity |-> t]

\* A store value st is [sessions, heap]: sessions is the key set of the dict
\* self.sessions, heap[id] the ChatSession object with that session_id.  A
\* handler that holds a session keeps the object itself, also after the dict
\* dropped it, so the objects outlive their dict entries.
Expired(session, t) == t - session.last_activity > SessionTimeout

\* Mutant of create_session: the identifier is drawn from the sessions held.
create_session_reuses_id(st, t) ==
    LET session_id == Cardinality(st.sessions) + 1
    IN  [st |-> [sessions |-> st.sessions \cup {session_id},
                 heap |-> IF session_id \in DOMAIN st.heap
                          THEN [st.heap EXCEPT ![session_id] = ChatSession(session_id, t)]
                          ELSE Append(st.heap, ChatSession(session_id, t))],
         result |-> session_id]

create_session(st, t) ==
    LET session_id == Len(st.heap) + 1
    IN  [st |-> [sessions |-> st.sessions \cup {session_id},
                 heap |-> Append(st.heap, ChatSession(session_id, t))],
         result |-> session_id]

\* Mutant of get_session: an expired session is reported gone but stays.
get_session_keeps_expired(st, session_id, t) ==
    IF session_id \notin st.sessions THEN [st |-> st, result |-> 0]
    ELSE IF Expired(st.heap[session_id], t) THEN [st |-> st, result |-> 0]
    ELSE [st |-> st, result |-> session_id]

\* result 0 stands for None.
get_session(st, session_id, t) ==
    IF session_id \notin st.sessions THEN [st |-> st, result |-> 0]
    ELSE IF Expired(st.heap[session_id], t)
    THEN [st |-> [st EXCEPT !.sessions = @ \ {session_id}], result |-> 0]
    ELSE [st |-> st, result |-> session_id]

update_session_activity(st, session_id, t) ==
    IF session_id \in st.sessions
    THEN [st |-> [st EXCEPT !.heap[session_id].last_activity = t], result |-> TRUE]
    ELSE [st |-> st, result |-> FALSE]

\* Mutant of add_message_to_session: the message is not stored.
add_message_to_session_unstored(st, session_id, message, t) ==
    [st |-> st, result |-> session_id \in st.sessions]

\* Mutant of add_message_to_session: a session the dict does not hold is put
\* back under its id.
add_message_to_session_upsert(st, session_id, message, t) ==
    IF session_id \notin DOMAIN st.heap THEN [st |-> st, result |-> FALSE]
    ELSE [st |-> [st EXCEPT
                    !.sessions = @ \cup {session_id},
                    !.heap[session_id].conversation_history = Append(@, message),
                    !.heap[session_id].last_activity = t],
          result |-> TRUE]

\* Mutant of add_message_to_session: the message is appended to the history
\* of every session of the store.
add_message_to_session_everywhere(st, session_id, message, t) ==
    IF session_id \notin st.sessions THEN [st |-> st, result |-> FALSE]
    ELSE [st |-> [st EXCEPT
                    !.heap = [id \in DOMAIN st.heap |->
                                 IF id \in st.sessions
                                 THEN [st.heap[id] EXCEPT
                                         !.conversation_history = Append(@, message),
                                         !.last_activity = t]
                                 ELSE st.heap[id]]],
          result |-> TRUE]

add_message_to_session(st, session_id, message, t) ==
    IF session_id \notin st.sessions THEN [st |-> st, result |-> FALSE]
    ELSE [st |-> [st EXCEPT
                    !.heap[session_id].conversation_history = Append(@, message),
                    !.heap[session_id].last_activity = t],
          result |-> TRUE]

update_session_profile(st, session_id, user_profile, t) ==
    IF session_id \notin st.sessions THEN [st |-> st, result |-> FALSE]
    ELSE [st |-> [st EXCEPT !.heap[session_id].user_profile = user_profile,
                            !.heap[session_id].last_activity = t],
          result |-> TRUE]

update_session_phase(st, session_id, phase, t) ==
    IF session_id \notin st.sessions THEN [st |-> st, result |-> FALSE]
    ELSE [st |-> [st EXCEPT !.heap[session_id].current_phase = phase,
                            !.heap[session_id].last_activity = t],
          result |-> TRUE]

\* Messages whose role is neither user nor assistant are dropped.
RECURSIVE convert_chat_history_to_langchain_messages(_)
convert_chat_history_to_langchain_messages(chat_history) ==
    IF chat_history = <<>> THEN <<>>
    ELSE LET msg == Head(chat_history)
             rest == convert_chat_history_to_langchain_messages(Tail(chat_history))
         IN  IF msg.role = "user" THEN <<HumanMessage(msg.content)>> \o rest
             ELSE IF msg.role = "assistant"
             THEN <<AIMessage(msg.content, FALSE)>> \o rest
             ELSE rest

get_langchain_messages(st, session_id, t) ==
    LET got == get_session(st, session_id, t)
    IN  [st |-> got.st,
         result |-> IF got.result = 0 THEN <<>>
                    ELSE convert_chat_history_to_langchain_messages(
                             got.st.heap[session_id].conversation_history)]

\* Mutant of delete_session: the dict is emptied.
delete_session_clears(st, session_id) ==
    IF session_id \in st.sessions
    THEN [st |-> [st EXCEPT !.sessions = {}], result |-> TRUE]
    ELSE [st |-> st, result |-> FALSE]

delete_session(st, session_id) ==
    IF session_id \in st.sessions
    THEN [st |-> [st EXCEPT !.sessions = @ \ {session_id}], result |-> TRUE]
    ELSE [st |-> st, result |-> FALSE]

\* Mutant of cleanup_expired_sessions: a session is swept once its age has
\* reached the timeout.
cleanup_expired_sessions_at_timeout(st, t) ==
    LET expired_sessions ==
            {id \in st.sessions : t - st.heap[id].last_activity >= SessionTimeout}
    IN  [st |-> [st EXCEPT !.sessions = @ \ expired_sessions],
         result |-> Cardinality(expired_sessions)]

cleanup_expired_sessions(st, t) ==
    LET expired_sessions == {id \in st.sessions : Expired(st.heap[id], t)}
    IN  [st |-> [st EXCEPT !.sessions = @ \ expired_sessions],
         result |-> Cardinality(expired_sessions)]

\* ------------------------------------------------------------------- state
VARIABLES
    sessions,      \* session_store.sessions: the ids the dict holds
    heap,          \* the ChatSession objects ever created, by session_id
    now,           \* datetime.now(), in minutes
    index_loaded,  \* vector_service.index is not None
    req            \* the requests in flight, by handler slot

vars == <<sessions, heap, now, index_loaded, req>>

\* The handler slots: requests that can be in flight at the same time.
Reqs == {1, 2}
\* A caller that sends its next request after the answer to the last one.
Sequential == {1}

Store == [sessions |-> sessions, heap |-> heap]

\* ------------------------------------------------------- request inputs
\* conversation_history values a /chat caller sends.
Histories ==
    {<<>>,
     <<ChatMessage("assistant", WelcomeText), ChatMessage("system", "txt"),
       ChatMessage("user", "txt")>>}

Profiles == {UserProfile(ProfileData(Fields, "Dana"))}

\* phase values a /chat caller sends (ChatRequest.phase is any string); the
\* engine itself also accepts a state without phase.
PhaseInputs == {"collection", "qa", "", "other", NoPhase}

\* What the extraction tool hands back as ToolMessage content: a complete
\* profile, a profile with 5 of the 7 fields, or text that is no JSON.
ExtractionOutputs ==
    {Json(ProfileData(Fields, "Dana")), Json(ProfileData(Fields, "Noa")),
     Json(ProfileData(Fields \ {"hmo", "insurance_tier"}, "Dana")), NoJson}

\* VectorService.search: no result when no index is loaded, and none when
\* the embedding call or the index lookup raises (the exception is printed).
search(loaded, raises) ==
    IF ~loaded THEN <<>>
    ELSE IF raises THEN <<>>
    ELSE <<"doc">>

\* Mutant of search_top_k: the whole index is asked for and the loop has no
\* break.
search_top_k_unbounded(loaded, ntotal, k, raises) ==
    IF ~loaded THEN <<>>
    ELSE IF raises \/ ntotal <= 0 THEN <<>>
    ELSE [i \in 1..ntotal |-> i]

\* The loop over the hits of search: a result per hit, left once k are there.
RECURSIVE TakeHits(_, _, _)
TakeHits(hits, k, results) ==
    IF hits = <<>> THEN results
    ELSE LET more == Append(results, Head(hits))
         IN  IF Len(more) >= k THEN more ELSE TakeHits(Tail(hits), k, more)

\* VectorService.search with its k: the index holds ntotal vectors and is
\* asked for min(k, ntotal) neighbours (FAISS rejects a number below 1, which
\* the except clause turns into no result); a result is the rank of its hit.
search_top_k(loaded, ntotal, k, raises) ==
    IF ~loaded THEN <<>>
    ELSE IF raises THEN <<>>
    ELSE LET n == IF k < ntotal THEN k ELSE ntotal
         IN  IF n < 1 THEN <<>>
             ELSE TakeHits([i \in 1..n |-> i], k, <<>>)

\* What the search tool hands back: formatted matches, or the explicit
\* no-relevant-information text when the retrieval returned nothing.
search_info(loaded) == IF loaded THEN "results" ELSE "no relevant information found"

\* A stubbed model: the AIMessages it answers a call with, free text
\* (possibly empty) or a tool-call request (with or without content text).
LlmStub(text, tool_call_text) ==
    {AIMessage(text, FALSE), AIMessage(tool_call_text, TRUE)}
\* The models a /chat turn is run against, and those of a stateful turn.
ChatStubs == {LlmStub(text, tc) : text \in {"txt", ""}, tc \in {"", "txt"}}
StatefulStubs == {LlmStub("txt", "")}

\* A deterministic model: it requests its tool when the last message is the
\* user's and answers in text once the tool's result is there.
ToolThenText == {AIMessage("answer", FALSE), AIMessage("", TRUE)}
\* A model that only ever answers in text.
TextOnly == {AIMessage("txt", FALSE)}
\* The models of the turns that race each other.
RaceStubs == {TextOnly, ToolThenText}

\* The answers the stub llm may give when it is invoked with state's messages.
Replies(llm, state) ==
    IF llm = ToolThenText
    THEN {response \in llm :
             response.tool_calls = (/\ Len(state.messages) > 0
                                    /\ LastMessage(state).type = "human")}
    ELSE llm

\* ---------------------------------------------------------------- requests
\* What a session holds: its history, its profile and its phase.
Snapshot(session) ==
    [conversation_history |-> session.conversation_history,
     user_profile |-> session.user_profile,
     current_phase |-> session.current_phase]

Response(status, message, session_id, user_profile, phase, requires_confirmation) ==
    [status |-> status, message |-> message, session_id |-> session_id,
     user_profile |-> user_profile, phase |-> phase,
     requires_confirmation |-> requires_confirmation]

NoResponse == Response(0, "", 0, None, NoPhase, FALSE)
Failure(status) == Response(status, "", 0, None, NoPhase, FALSE)

\* A handler slot: kind of request, position in the handler, the request's
\* fields, the handler's locals, the workflow run and the response sent.
\* search_raises: the retrieval collaborator fails during this request.
\* result: what a direct call of a SessionStore method returned.
\* before: what the session held when the handler obtained it.
Idle ==
    [kind |-> "none", pc |-> "idle", message_ok |-> TRUE, llm |-> {},
     search_raises |-> FALSE,
     session_id |-> 0, user_profile |-> None, phase |-> NoPhase,
     session |-> 0, before |-> None, result |-> None, wf |-> NoRun,
     response_message |-> "", updated_user_profile |-> None,
     workflow_phase |-> NoPhase, resp |-> NoResponse]

Free(r) == req[r].pc \in {"idle", "responded"}

\* except ValueError -> 400; except Exception -> 500 "Internal server error".
\* HTTPException is an Exception and no ValueError.
OuterHandler(exc) == IF exc = "ValueError" THEN 400 ELSE 500

Responded(slot, resp) == [slot EXCEPT !.pc = "responded", !.resp = resp]

\* A ChatSession object that neither the dict nor a running handler refers to
\* is garbage: nothing can read it again.
Collected == [ChatSession(0, 0) EXCEPT !.current_phase = NoPhase]
Referenced(rq, id) == \E r \in Reqs : rq[r].pc \notin {"idle", "responded"} /\ rq[r].session = id
Collect(st, rq) ==
    [id \in DOMAIN st.heap |->
        IF id \in st.sessions \/ Referenced(rq, id) THEN st.heap[id] ELSE Collected]

\* The effect of a handler step: the store it leaves and its own slot.
Commit(r, st, slot) ==
    LET rq == [req EXCEPT ![r] = slot]
    IN  /\ sessions' = st.sessions
        /\ heap' = Collect(st, rq)
        /\ req' = rq
        /\ UNCHANGED <<now, index_loaded>>

Init ==
    /\ sessions = {}
    /\ heap = <<>>
    /\ now = 0
    /\ index_loaded \in BOOLEAN
    /\ req = [r \in Reqs |-> Idle]

\* ------------------------------------------------------------------- time
\* Time passes between requests and while a handler waits for the model (no
\* session timeout elapses between two statements of a handler otherwise);
\* the run reads neither the clock nor the store, so a wait during the run
\* is taken at its first step.
Tick ==
    /\ \A r \in Reqs : Free(r) \/ (req[r].pc = "run" /\ req[r].wf.steps = 0)
    /\ \E d \in {SessionTimeout, SessionTimeout + 1} :
           /\ now + d <= MaxTime
           /\ now' = now + d
    /\ UNCHANGED <<sessions, heap, index_loaded, req>>

\* ------------------------------------------------------- the workflow run
Running(r) == req[r].pc = "run" /\ CanStep(req[r].wf)

SetRun(r, wf) == Commit(r, Store, [req[r] EXCEPT !.wf = wf])

EntryPoint(r) ==
    /\ Running(r) /\ req[r].wf.next = "entry_point"
    /\ SetRun(r, RunNode(req[r].wf, entry_point(req[r].wf.state)))

CollectorAgent(r) ==
    /\ Running(r) /\ req[r].wf.next = "collector_agent"
    /\ \E response \in Replies(req[r].llm, req[r].wf.state) :
           SetRun(r, RunNode(req[r].wf, collector_agent(req[r].wf.state, response)))

HandleExtractionTool(r) ==
    /\ Running(r) /\ req[r].wf.next = "handle_extraction_tool"
    /\ \E out \in ExtractionOutputs :
           SetRun(r, RunNode(req[r].wf, handle_extraction_tool(req[r].wf.state, out)))

QaAgent(r) ==
    /\ Running(r) /\ req[r].wf.next = "qa_agent"
    /\ \E response \in Replies(req[r].llm, req[r].wf.state) :
           SetRun(r, RunNode(req[r].wf, qa_agent(req[r].wf.state, response)))

HandleSearchTool(r) ==
    /\ Running(r) /\ req[r].wf.next = "handle_search_tool"
    /\ LET results == search(index_loaded, req[r].search_raises)
       IN  SetRun(r, RunNode(req[r].wf,
                             handle_search_tool(req[r].wf.state,
                                                search_info(results /= <<>>))))

\* llm.invoke raises inside an agent node.
LlmFailure(r) ==
    /\ Running(r) /\ req[r].wf.next \in {"collector_agent", "qa_agent"}
    /\ SetRun(r, FailRun(req[r].wf, "LLMError"))

\* GraphRecursionError: the step budget is used up and the graph has not ended.
RecursionLimitReached(r) ==
    /\ req[r].pc = "run" /\ OutOfSteps(req[r].wf)
    /\ SetRun(r, FailRun(req[r].wf, "GraphRecursionError"))

\* except Exception as workflow_error: HTTPException(500), in both handlers.
WorkflowFailed(r) ==
    /\ req[r].pc = "run" /\ req[r].wf.status = "error"
    /\ Commit(r, Store, Responded(req[r], Failure(OuterHandler("HTTPException"))))

\* ------------------------------------------------------------ POST /chat
\* Lines 210-226: validation, the initial state, the start of the run.
ChatStart(r) ==
    /\ Free(r)
    /\ \E message_ok \in BOOLEAN, history \in Histories, llm \in ChatStubs,
          user_profile \in Profiles \cup {None}, phase \in PhaseInputs :
           LET slot == [Idle EXCEPT !.kind = "chat", !.message_ok = message_ok,
                                    !.llm = llm,
                                    !.user_profile = user_profile, !.phase = phase]
               langchain_messages ==
                   Append(convert_chat_history_to_langchain_messages(history),
                          HumanMessage("txt"))
               initial_state ==
                   WorkflowState(langchain_messages, user_profile, phase)
           IN  IF ~message_ok
               THEN Commit(r, Store, Responded(slot, Failure(OuterHandler("HTTPException"))))
               ELSE Commit(r, Store, [slot EXCEPT !.pc = "run",
                                                  !.wf = StartRun(initial_state)])

\* Lines 243-262: the response built from the last chunk.
ChatFinish(r) ==
    /\ req[r].kind = "chat" /\ req[r].pc = "run" /\ req[r].wf.status = "done"
    /\ IF req[r].wf.final = None
       THEN Commit(r, Store, Responded(req[r], Failure(OuterHandler("HTTPException"))))
       ELSE LET got == extract_response_from_workflow_result(req[r].wf.final)
                response_message ==
                    IF got.response_message = "" THEN ApologyText
                    ELSE got.response_message
                requires_confirmation ==
                    /\ got.user_profile /= None
                    /\ got.phase = "qa"
                    /\ req[r].user_profile = None
            IN  Commit(r, Store,
                       Responded([req[r] EXCEPT !.response_message = response_message,
                                                !.updated_user_profile = got.user_profile,
                                                !.workflow_phase = got.phase],
                                 Response(200, response_message, 0, got.user_profile,
                                          got.phase, requires_confirmation)))

\* --------------------------------------------------- session endpoints
\* POST /sessions
\* cap: the number of sessions the requests create at most.
CreateSessionUpTo(r, cap) ==
    /\ Free(r)
    /\ Len(heap) < cap
    /\ LET made == create_session(Store, now)
           added == add_message_to_session(
                        made.st, made.result,
                        ChatMessage("assistant", WelcomeText), now)
       IN  Commit(r, added.st,
                  Responded([Idle EXCEPT !.kind = "create"],
                            Response(200, WelcomeText, made.result, None, NoPhase, FALSE)))

CreateSession(r) == CreateSessionUpTo(r, MaxSessions)

\* GET /sessions/{session_id}
GetSession(r) ==
    /\ Free(r)
    /\ \E session_id \in 1..MaxSessions :
           LET got == get_session(Store, session_id, now)
               slot == [Idle EXCEPT !.kind = "get", !.session_id = session_id]
           IN  Commit(r, got.st,
                      IF got.result = 0
                      THEN Responded(slot, Failure(404))
                      ELSE Responded([slot EXCEPT !.session = got.result],
                                     Response(200, "", session_id,
                                              heap[session_id].user_profile,
                                              heap[session_id].current_phase, FALSE)))

\* DELETE /sessions/{session_id}
DeleteSession(r) ==
    /\ Free(r)
    /\ \E session_id \in 1..MaxSessions :
           LET got == delete_session(Store, session_id)
               slot == [Idle EXCEPT !.kind = "delete", !.session_id = session_id]
           IN  Commit(r, got.st,
                      Responded(slot, IF got.result
                                      THEN Response(200, "", session_id, None, NoPhase, FALSE)
                                      ELSE Failure(404)))

\* SessionStore.cleanup_expired_sessions (the optional sweep).
CleanupExpiredSessions ==
    LET swept == cleanup_expired_sessions(Store, now)
    IN  /\ sessions' = swept.st.sessions
        /\ heap' = Collect(swept.st, req)
        /\ UNCHANGED <<now, index_loaded, req>>

\* --------------------------------------------------- POST /chat/stateful
\* The ChatMessages held by the sessions in the store.
RECURSIVE SumLen(_)
SumLen(S) ==
    IF S = {} THEN 0
    ELSE LET id == CHOOSE x \in S : TRUE
         IN  Len(heap[id].conversation_history) + SumLen(S \ {id})
StoredMessages == SumLen(sessions)

\* Lines 319-331: validation, then get_session or create_session.  The
\* handler keeps the ChatSession object the store handed out.
\* Ids: the session_id values the clients send (0: none); room: the
\* ChatMessages the store holds at most; Stubs: the models behind the turn.
StatefulStartOn(r, Ids, room, Stubs) ==
    /\ Free(r)
    /\ \E message_ok \in BOOLEAN, session_id \in Ids, llm \in Stubs,
          search_raises \in (IF index_loaded THEN BOOLEAN ELSE {FALSE}) :
           LET slot == [Idle EXCEPT !.kind = "stateful", !.message_ok = message_ok,
                                    !.llm = llm, !.search_raises = search_raises,
                                    !.session_id = session_id]
           IN  IF ~message_ok
               THEN Commit(r, Store, Responded(slot, Failure(OuterHandler("HTTPException"))))
               ELSE IF session_id /= 0
               THEN LET got == get_session(Store, session_id, now)
                    IN  IF got.result = 0
                        THEN Commit(r, got.st,
                                    Responded(slot, Failure(OuterHandler("HTTPException"))))
                        ELSE /\ StoredMessages + 2 <= room
                             /\ Commit(r, got.st, [slot EXCEPT !.pc = "add_user",
                                                               !.session = got.result,
                                                               !.before = Snapshot(heap[got.result])])
               ELSE LET made == create_session(Store, now)
                    IN  /\ Len(heap) < MaxSessions
                        /\ Commit(r, made.st, [slot EXCEPT !.pc = "add_welcome",
                                                           !.session = made.result,
                                                           !.before = Snapshot(made.st.heap[made.result])])

StatefulStart(r) == StatefulStartOn(r, 0..MaxSessions, MaxHistory, StatefulStubs)

\* Lines 332-335: the welcome message of a session created by this request.
StatefulAddWelcome(r) ==
    /\ req[r].pc = "add_welcome"
    /\ Commit(r, add_message_to_session(Store, req[r].session,
                                        ChatMessage("assistant", WelcomeText), now).st,
              [req[r] EXCEPT !.pc = "add_user"])

\* Lines 342-344: the user message is stored before the workflow runs.
StatefulAddUserMessage(r) ==
    /\ req[r].pc = "add_user"
    /\ Commit(r, add_message_to_session(Store, req[r].session,
                                        ChatMessage("user", "txt"), now).st,
              [req[r] EXCEPT !.pc = "build"])

\* Lines 346-374: the history in LangChain form, the phase and the profile
\* read from the session object, the start of the run.
StatefulBuildState(r) ==
    /\ req[r].pc = "build"
    /\ LET got == get_langchain_messages(Store, req[r].session, now)
           session == heap[req[r].session]
           initial_phase == IF TruthyStr(session.current_phase)
                            THEN session.current_phase ELSE "collection"
           initial_state == WorkflowState(got.result, session.user_profile, initial_phase)
       IN  Commit(r, got.st, [req[r] EXCEPT !.pc = "run", !.wf = StartRun(initial_state)])

\* Lines 392-399: the response, the profile and the phase of the last chunk.
StatefulExtract(r) ==
    /\ req[r].kind = "stateful" /\ req[r].pc = "run" /\ req[r].wf.status = "done"
    /\ IF req[r].wf.final = None
       THEN Commit(r, Store, Responded(req[r], Failure(OuterHandler("HTTPException"))))
       ELSE LET got == extract_response_from_workflow_result(req[r].wf.final)
            IN  Commit(r, Store,
                       [req[r] EXCEPT
                          !.pc = "update_profile",
                          !.response_message =
                              IF got.response_message = "" THEN ApologyText
                              ELSE got.response_message,
                          !.updated_user_profile = got.user_profile,
                          !.workflow_phase = got.phase])

\* Lines 404-409.
StatefulUpdateProfile(r) ==
    /\ req[r].pc = "update_profile"
    /\ LET session == heap[req[r].session]
           updated_user_profile == req[r].updated_user_profile
       IN  Commit(r,
                  IF TruthyProfile(updated_user_profile)
                     /\ updated_user_profile /= session.user_profile
                  THEN update_session_profile(Store, req[r].session,
                                              updated_user_profile, now).st
                  ELSE Store,
                  [req[r] EXCEPT !.pc = "update_phase"])

\* Lines 411-416.
StatefulUpdatePhase(r) ==
    /\ req[r].pc = "update_phase"
    /\ LET session == heap[req[r].session]
           workflow_phase == req[r].workflow_phase
       IN  Commit(r,
                  IF TruthyStr(workflow_phase) /\ workflow_phase /= session.current_phase
                  THEN update_session_phase(Store, req[r].session, workflow_phase, now).st
                  ELSE Store,
                  [req[r] EXCEPT !.pc = "add_assistant"])

\* Lines 418-420.
StatefulAddAssistantMessage(r) ==
    /\ req[r].pc = "add_assistant"
    /\ Commit(r, add_message_to_session(
                     Store, req[r].session,
                     ChatMessage("assistant", req[r].response_message), now).st,
              [req[r] EXCEPT !.pc = "respond"])

\* Lines 422-447: session is still the object fetched at the start, so
\* session.user_profile is read after update_session_profile wrote it.
StatefulRespond(r) ==
    /\ req[r].pc = "respond"
    /\ LET got == get_session(Store, req[r].session, now)
           session == heap[req[r].session]
           updated_session == got.result
           requires_confirmation ==
               /\ req[r].updated_user_profile /= None
               /\ req[r].workflow_phase = "qa"
               /\ session.user_profile = None
       IN  Commit(r, got.st,
                  Responded(req[r],
                      Response(200, req[r].response_message, req[r].session,
                               IF updated_session /= 0 THEN session.user_profile
                               ELSE req[r].updated_user_profile,
                               IF updated_session /= 0 THEN session.current_phase
                               ELSE req[r].workflow_phase,
                               requires_confirmation)))

\* ------------------------------------------- SessionStore, called directly
\* A caller of the store's methods: one more session than the handlers make,
\* so that every operation is seen next to a session it does not name.
StoreIds == 1..(MaxSessions + 1)

\* The slot of a direct call: the method, its argument, the session the dict
\* held under that id before the call (0 when it held none), the result.
StoreCall(op, session_id, result) ==
    [Idle EXCEPT !.kind = op, !.session_id = session_id,
                 !.session = IF session_id \in sessions THEN session_id ELSE 0,
                 !.result = result]

StoreCreate(r) ==
    /\ Free(r)
    /\ Len(heap) < MaxSessions + 1
    /\ LET made == create_session(Store, now)
       IN  Commit(r, made.st, Responded(StoreCall("store.create", 0, made.result), NoResponse))

StoreGet(r) ==
    /\ Free(r)
    /\ \E session_id \in StoreIds :
           LET got == get_session(Store, session_id, now)
           IN  Commit(r, got.st,
                      Responded(StoreCall("store.get", session_id, got.result), NoResponse))

StoreUpdateActivity(r) ==
    /\ Free(r)
    /\ \E session_id \in StoreIds :
           LET got == update_session_activity(Store, session_id, now)
           IN  Commit(r, got.st,
                      Responded(StoreCall("store.activity", session_id, got.result), NoResponse))

StoreAddMessage(r) ==
    /\ Free(r)
    /\ StoredMessages < MaxStoreMessages
    /\ \E session_id \in StoreIds :
           LET got == add_message_to_session(Store, session_id,
                                             ChatMessage("user", "txt"), now)
           IN  Commit(r, got.st,
                      Responded(StoreCall("store.add", session_id, got.result), NoResponse))

StoreUpdateProfile(r) ==
    /\ Free(r)
    /\ \E session_id \in StoreIds, user_profile \in Profiles :
           LET got == update_session_profile(Store, session_id, user_profile, now)
           IN  Commit(r, got.st,
                      Responded(StoreCall("store.profile", session_id, got.result), NoResponse))

StoreUpdatePhase(r) ==
    /\ Free(r)
    /\ \E session_id \in StoreIds :
           LET got == update_session_phase(Store, session_id, "qa", now)
           IN  Commit(r, got.st,
                      Responded(StoreCall("store.phase", session_id, got.result), NoResponse))

StoreDelete(r) ==
    /\ Free(r)
    /\ \E session_id \in StoreIds :
           LET got == delete_session(Store, session_id)
           IN  Commit(r, got.st,
                      Responded(StoreCall("store.delete", session_id, got.result), NoResponse))

\* ----------------------------------------------------------- specifications
Engine(r) ==
    \/ EntryPoint(r)
    \/ CollectorAgent(r)
    \/ HandleExtractionTool(r)
    \/ QaAgent(r)
    \/ HandleSearchTool(r)
    \/ LlmFailure(r)
    \/ RecursionLimitReached(r)
    \/ WorkflowFailed(r)

\* The stateful service: sessions, stateful turns, the passing of time.
Next ==
    \/ Tick
    \/ \E r \in Sequential :
        \/ CreateSession(r)
        \/ GetSession(r)
        \/ DeleteSession(r)
        \/ StatefulStart(r)
        \/ StatefulAddWelcome(r)
        \/ StatefulAddUserMessage(r)
        \/ StatefulBuildState(r)
        \/ StatefulExtract(r)
        \/ StatefulUpdateProfile(r)
        \/ StatefulUpdatePhase(r)
        \/ StatefulAddAssistantMessage(r)
        \/ StatefulRespond(r)
        \/ Engine(r)

Spec == Init /\ [][Next]_vars

\* The stateless service: every /chat request is one run of the workflow.
ChatNext ==
    \E r \in Sequential :
        \/ ChatStart(r)
        \/ ChatFinish(r)
        \/ Engine(r)

ChatSpec == Init /\ [][ChatNext]_vars

\* The /chat service with the progress its code guarantees: a handler that
\* has started a run keeps executing it (stream is a synchronous loop).
FairChatSpec == ChatSpec /\ \A r \in Sequential : WF_vars(Engine(r) \/ ChatFinish(r))

\* The SessionStore on its own: its methods called in any order as time passes.
StoreNext ==
    \/ Tick
    \/ CleanupExpiredSessions
    \/ \E r \in Sequential :
        \/ StoreCreate(r)
        \/ StoreGet(r)
        \/ StoreUpdateActivity(r)
        \/ StoreAddMessage(r)
        \/ StoreUpdateProfile(r)
        \/ StoreUpdatePhase(r)
        \/ StoreDelete(r)

StoreSpec == Init /\ [][StoreNext]_vars

\* Mutant of OnLoop: every handler runs in a thread of its own.
OnLoop_threads(r) == TRUE

\* Mutant of OnLoop: the handler awaits the workflow, so other handlers run
\* while it waits for its run.
OnLoop_awaits_run(r) == \A q \in Reqs \ {r} : Free(q) \/ req[q].pc = "run"

\* The handlers are coroutines (async def) without an await in their bodies
\* and the workflow is run by a synchronous call, so the one event loop of
\* the server process runs a handler to its response before it starts the
\* next: a request makes a step only while no other is inside its handler.
OnLoop(r) == \A q \in Reqs \ {r} : Free(q)

\* The messages the store may hold while the clients race: the welcome of
\* every session and one turn for each request in flight.
RaceRoom == Len(heap) + 2 * Cardinality(Reqs)

\* Clients that send stateful turns at the same time, for sessions created
\* by POST /sessions: the requests are in flight together (one slot each)
\* and the server runs their handlers.
RaceNext ==
    \E r \in Reqs :
        \/ OnLoop(r) /\ CreateSessionUpTo(r, MaxSessions + 1)
        \/ OnLoop(r) /\ StatefulStartOn(r, StoreIds, RaceRoom, RaceStubs)
        \/ OnLoop(r) /\ StatefulAddUserMessage(r)
        \/ OnLoop(r) /\ StatefulBuildState(r)
        \/ OnLoop(r) /\ StatefulExtract(r)
        \/ OnLoop(r) /\ StatefulUpdateProfile(r)
        \/ OnLoop(r) /\ StatefulUpdatePhase(r)
        \/ OnLoop(r) /\ StatefulAddAssistantMessage(r)
        \/ OnLoop(r) /\ StatefulRespond(r)
        \/ OnLoop(r) /\ Engine(r)

RaceSpec == Init /\ [][RaceNext]_vars

\* A stateful turn and DELETE requests served as if each handler had a
\* thread of its own: the DELETE may come at any point of the turn.  The
\* event loop allows fewer interleavings than this.
DeleteRaceNext ==
    \/ \E r \in Sequential :
           \/ CreateSessionUpTo(r, MaxSessions + 1)
           \/ StatefulStartOn(r, StoreIds, RaceRoom, RaceStubs)
           \/ StatefulAddUserMessage(r)
           \/ StatefulBuildState(r)
           \/ StatefulExtract(r)
           \/ StatefulUpdateProfile(r)
           \/ StatefulUpdatePhase(r)
           \/ StatefulAddAssistantMessage(r)
           \/ StatefulRespond(r)
           \/ req[r].kind = "stateful" /\ Engine(r)
    \/ \E r \in Reqs \ Sequential : DeleteSession(r)

DeleteRaceSpec == Init /\ [][DeleteRaceNext]_vars

\* ------------------------------------------------------------------ claims
Agents == {"collector_agent", "qa_agent"}
HandlerOf(node) ==
    IF node = "collector_agent" THEN "handle_extraction_tool" ELSE "handle_search_tool"

\* The complete profiles the extraction tool returned during the run wf.
ExtractedInRun(wf) ==
    {UserProfile(wf.state.messages[i].json.data) :
        i \in {j \in 1..Len(wf.state.messages) :
                 /\ wf.state.messages[j].type = "tool"
                 /\ wf.state.messages[j].json.is_json
                 /\ UserProfileValid(wf.state.messages[j].json.data)}}

\* C1: the phase is monotonic.  Within one run a graph state whose phase is
\* qa is never followed by one whose phase is collection, and no step of a
\* stateful turn (nor any other request) takes a session's current_phase
\* from qa back to collection.
C1_PhaseMonotonic ==
    [][/\ \A r \in Reqs :
            (req[r].pc = "run" /\ req'[r].pc = "run"
             /\ req[r].wf.state.phase = "qa")
                => req'[r].wf.state.phase = "qa"
       /\ \A id \in DOMAIN heap :
            heap[id].current_phase = "qa" => heap'[id].current_phase /= "collection"
      ]_vars

\* A second turn on a session that is already in qa has been answered.
C1_Witness ==
    \E r \in Reqs :
        /\ req[r].kind = "stateful" /\ req[r].pc = "responded"
        /\ req[r].resp.status = 200
        /\ req[r].wf.input.phase = "qa"
        /\ req[r].session \in sessions
        /\ heap[req[r].session].current_phase = "qa"
        /\ Len(heap[req[r].session].conversation_history) >= 5

\* C2: after the collector or the responder produced an AIMessage with a
\* tool-call entry, the node chosen next is the matching handler, never END,
\* whether or not the message also carries content text.
C2_ToolCallRoutesToHandler ==
    \A r \in Reqs :
        LET wf == req[r].wf
        IN  (wf.node \in Agents /\ LastMessage(wf.state).type = "ai"
             /\ LastMessage(wf.state).tool_calls)
                => wf.next = HandlerOf(wf.node)

\* The responder asked for the search tool in a message that has text too.
C2_Witness ==
    \E r \in Reqs :
        LET wf == req[r].wf
        IN  /\ wf.node = "qa_agent"
            /\ LastMessage(wf.state).tool_calls
            /\ LastMessage(wf.state).content = "txt"
            /\ wf.next = "handle_search_tool"

\* C3: a run is done exactly when the node that ran last is the collector or
\* the responder and the message it produced is an AIMessage without
\* tool-call; it is never done right after entry_point or a tool handler.
C3_TerminalOnlyAfterFinalAnswer ==
    \A r \in Reqs :
        LET wf == req[r].wf
        IN  wf.status /= "none" =>
                ((wf.status = "done")
                    <=> (/\ wf.node \in Agents
                         /\ LastMessage(wf.state).type = "ai"
                         /\ ~LastMessage(wf.state).tool_calls))

\* A run ended after the responder answered a tool result with text.
C3_Witness ==
    \E r \in Reqs :
        /\ req[r].wf.status = "done" /\ req[r].wf.node = "qa_agent"
        /\ req[r].wf.steps >= 4

\* C4: after entry_point the next node is qa_agent exactly when the input
\* phase is "qa"; for every other input phase (also "" and a missing phase)
\* it is collector_agent.
C4_EntryRouting ==
    \A r \in Reqs :
        LET wf == req[r].wf
        IN  wf.node = "entry_point" =>
                /\ (wf.next = "qa_agent") <=> (wf.input.phase = "qa")
                /\ (wf.next = "collector_agent") <=> (wf.input.phase /= "qa")

\* entry_point routed a run without phase to the collector.
C4_Witness ==
    \E r \in Reqs :
        /\ req[r].wf.node = "entry_point" /\ req[r].wf.input.phase = NoPhase
        /\ req[r].wf.next = "collector_agent"

\* C5: every run ends.  No run takes more than recursion_limit supersteps,
\* GraphRecursionError is raised only with the budget used up and is answered
\* with a failure, a 200 response needs a run that reached END, and every
\* request that started a run is answered.
C5_RunEnds ==
    /\ [](\A r \in Reqs :
            LET wf == req[r].wf
            IN  /\ wf.steps <= RecursionLimit
                /\ wf.error = "GraphRecursionError" =>
                      (wf.steps = RecursionLimit /\ wf.status = "error")
                /\ (req[r].pc = "responded" /\ wf.error = "GraphRecursionError")
                      => req[r].resp.status = 500
                /\ (req[r].kind = "chat" /\ req[r].resp.status = 200)
                      => wf.status = "done")
    /\ \A r \in Sequential : (req[r].pc = "run") ~> (req[r].pc = "responded")

\* A model that asked for a tool on every call was stopped by the budget.
C5_Witness ==
    \E r \in Reqs :
        /\ req[r].pc = "responded" /\ req[r].wf.error = "GraphRecursionError"
        /\ req[r].wf.steps = RecursionLimit
        /\ req[r].resp.status = 500

\* C6: /chat answers requires_confirmation = TRUE exactly when the extraction
\* tool returned a complete profile during this turn and the request carried
\* no profile; such a turn answers phase qa and the extracted profile.
C6_StatelessConfirmation ==
    \A r \in Reqs :
        (req[r].kind = "chat" /\ req[r].pc = "responded" /\ req[r].resp.status = 200)
            => /\ req[r].resp.requires_confirmation
                    <=> (ExtractedInRun(req[r].wf) /= {} /\ req[r].user_profile = None)
               /\ req[r].resp.requires_confirmation
                    => /\ req[r].resp.phase = "qa"
                       /\ req[r].resp.user_profile \in ExtractedInRun(req[r].wf)

\* Scenario A: phase collection, no profile, all seven fields extracted.
C6_Witness ==
    \E r \in Reqs :
        /\ req[r].kind = "chat" /\ req[r].pc = "responded"
        /\ req[r].wf.input.phase = "collection" /\ req[r].user_profile = None
        /\ req[r].resp.requires_confirmation
        /\ req[r].resp.user_profile = UserProfile(ProfileData(Fields, "Dana"))

\* C7: a stateful turn on a session without stored profile in which the
\* extraction succeeds answers requires_confirmation = TRUE, and the session
\* then holds that profile and phase qa.
C7_StatefulConfirmation ==
    \A r \in Reqs :
        (/\ req[r].kind = "stateful" /\ req[r].pc = "responded"
         /\ req[r].resp.status = 200
         /\ req[r].wf.input.user_profile = None
         /\ ExtractedInRun(req[r].wf) /= {})
            => /\ req[r].resp.requires_confirmation
               /\ req[r].session \in sessions
               /\ heap[req[r].session].user_profile \in ExtractedInRun(req[r].wf)
               /\ heap[req[r].session].current_phase = "qa"

\* C8: when the extraction tool's result does not parse into a complete
\* profile, handle_extraction_tool still returns: the profile is None, the
\* phase is qa, the ToolMessage is appended and qa_agent runs next.
C8_ParseFailureContinues ==
    \A r \in Reqs :
        LET wf == req[r].wf
        IN  (wf.node = "handle_extraction_tool" /\ ExtractedInRun(wf) = {})
                => /\ wf.state.user_profile = None
                   /\ wf.state.phase = "qa"
                   /\ LastMessage(wf.state).type = "tool"
                   /\ Len(wf.state.messages) = Len(wf.input.messages) + 2
                   /\ wf.next = "qa_agent"
                   /\ wf.error \in {"", "LLMError"}

\* Scenario C: the tool returned 5 of the 7 fields.
C8_Witness ==
    \E r \in Reqs :
        LET wf == req[r].wf
        IN  /\ wf.node = "handle_extraction_tool" /\ wf.status = "running"
            /\ LastMessage(wf.state).json.is_json
            /\ ~UserProfileValid(LastMessage(wf.state).json.data)
            /\ wf.state.phase = "qa" /\ wf.state.user_profile = None

\* C9: a run that starts in collection and ends in qa extracted a complete
\* profile: its output profile is present.
C9_QaOnlyAfterSuccessfulExtraction ==
    \A r \in Reqs :
        (/\ req[r].kind = "chat" /\ req[r].pc = "responded"
         /\ req[r].resp.status = 200
         /\ req[r].wf.input.phase = "collection"
         /\ req[r].resp.phase = "qa")
            => /\ req[r].resp.user_profile /= None
               /\ ExtractedInRun(req[r].wf) /= {}

\* C10: a run whose input phase is qa never changes profile or phase: in
\* every graph state of the run, and in the response, the profile is the
\* input profile and the phase is qa.
C10_QaTurnKeepsProfileAndPhase ==
    \A r \in Reqs :
        LET wf == req[r].wf
        IN  (wf.status /= "none" /\ wf.input.phase = "qa")
                => /\ wf.state.user_profile = wf.input.user_profile
                   /\ wf.state.phase = "qa"
                   /\ (req[r].pc = "responded" /\ req[r].resp.status = 200)
                        => /\ req[r].resp.user_profile = wf.input.user_profile
                           /\ req[r].resp.phase = "qa"

\* Scenario B: phase qa, a profile, a search tool-call and then final text.
C10_Witness ==
    \E r \in Reqs :
        /\ req[r].pc = "responded" /\ req[r].resp.status = 200
        /\ req[r].wf.input.phase = "qa"
        /\ req[r].wf.input.user_profile /= None
        /\ req[r].wf.steps >= 4
        /\ req[r].resp.user_profile = req[r].wf.input.user_profile

\* The search tool ran during the run wf (the history handed to a run holds
\* no ToolMessage).
SearchedInRun(wf) ==
    \E i \in 1..Len(wf.state.messages) :
        /\ wf.state.messages[i].type = "tool"
        /\ wf.state.messages[i].content \in {search_info(TRUE), search_info(FALSE)}

\* C11: a stateful turn that failed because the model call raised or the
\* step budget ran out committed nothing: the session in the store holds the
\* history, the profile and the phase it held when the turn started.
C11_FailedTurnCommitsNothing ==
    \A r \in Reqs :
        (/\ req[r].kind = "stateful" /\ req[r].pc = "responded"
         /\ req[r].wf.error \in {"LLMError", "GraphRecursionError"}
         /\ req[r].session \in sessions)
            => Snapshot(heap[req[r].session]) = req[r].before

\* C12: a turn during which the model call or the retrieval call failed is
\* answered with a failure, never with a 200 response.
C12_CollaboratorFailureFailsTurn ==
    \A r \in Reqs :
        (/\ req[r].kind \in {"chat", "stateful"} /\ req[r].pc = "responded"
         /\ \/ req[r].wf.error = "LLMError"
            \/ req[r].search_raises /\ SearchedInRun(req[r].wf))
            => req[r].resp.status >= 500

\* C13: a send-message request whose message is empty or blank is answered
\* with a client error (4xx), without a run and without touching a session.
C13_EmptyMessageIsClientError ==
    \A r \in Reqs :
        (/\ req[r].kind \in {"chat", "stateful"} /\ req[r].pc = "responded"
         /\ ~req[r].message_ok)
            => /\ req[r].resp.status \in 400..499
               /\ req[r].wf = NoRun
               /\ req[r].session = 0

\* C14: a stateful request that names a session the store does not hand out
\* (unknown or expired) is answered 404, not with the internal-error status,
\* and runs nothing.
C14_UnknownSessionIsNotFound ==
    \A r \in Reqs :
        (/\ req[r].kind = "stateful" /\ req[r].pc = "responded"
         /\ req[r].message_ok /\ req[r].session_id /= 0 /\ req[r].session = 0)
            => /\ req[r].resp.status = 404
               /\ req[r].wf = NoRun

\* The store holds session id as create_session and the welcome message left it.
FreshWithWelcome(id) ==
    /\ id \in sessions
    /\ heap[id].conversation_history = <<ChatMessage("assistant", WelcomeText)>>
    /\ heap[id].user_profile = None
    /\ heap[id].current_phase = "collection"

\* C20: POST /sessions answers the welcome text and the id of a session that
\* is in the store with phase collection, no profile and the welcome text as
\* its only message; a stateful request without session_id has set up its
\* session the same way when it comes to store the user message.
C20_NewSessionHoldsWelcome ==
    \A r \in Reqs :
        /\ (req[r].kind = "create" /\ req[r].pc = "responded")
              => /\ req[r].resp.status = 200
                 /\ req[r].resp.message = WelcomeText
                 /\ FreshWithWelcome(req[r].resp.session_id)
        /\ (req[r].kind = "stateful" /\ req[r].session_id = 0
            /\ req[r].pc = "add_user")
              => /\ FreshWithWelcome(req[r].session)
                 /\ req[r].wf = NoRun

\* POST /sessions has been answered.
C20_Witness ==
    \E r \in Reqs :
        /\ req[r].kind = "create" /\ req[r].pc = "responded"
        /\ req[r].resp.session_id \in sessions
        /\ Len(heap[req[r].resp.session_id].conversation_history) = 1

\* The sessions other than id are in st2 what they are in st1.
OthersUntouched(st1, st2, id) ==
    \A o \in st1.sessions \ {id} :
        o \in st2.sessions /\ st2.heap[o] = st1.heap[o]

\* C15: get_session answers None for an id the store does not hold and for
\* a session whose last activity is older than the timeout; the expired
\* entry is removed by that call; a session within the timeout is handed
\* out; no other session is removed or changed.
C15_GetSessionNotFound ==
    \A id \in StoreIds :
        LET got == get_session(Store, id, now)
        IN  /\ id \notin sessions => (got.result = 0 /\ got.st = Store)
            /\ (id \in sessions /\ Expired(heap[id], now))
                  => (got.result = 0 /\ got.st.sessions = sessions \ {id})
            /\ (id \in sessions /\ ~Expired(heap[id], now))
                  => (got.result = id /\ got.st = Store)
            /\ OthersUntouched(Store, got.st, id)

\* get_session found a session expired and removed it; another one stays.
C15_Witness ==
    \E r \in Reqs :
        /\ req[r].kind = "store.get" /\ req[r].result = 0
        /\ req[r].session = req[r].session_id
        /\ req[r].session_id \notin sessions
        /\ sessions /= {}

\* C16: a session whose last activity is older than the timeout is gone for
\* every operation: appending a message, setting the profile, setting the
\* phase and deleting report not-found and leave the store as it is.
C16_ExpiredIsGoneForEveryOperation ==
    \A id \in sessions :
        Expired(heap[id], now) =>
            LET added == add_message_to_session(Store, id, ChatMessage("user", "txt"), now)
                profiled == update_session_profile(
                                Store, id, UserProfile(ProfileData(Fields, "Dana")), now)
                phased == update_session_phase(Store, id, "qa", now)
                deleted == delete_session(Store, id)
            IN  /\ ~added.result /\ ~profiled.result /\ ~phased.result
                /\ ~deleted.result
                /\ added.st.heap[id] = heap[id]
                /\ profiled.st.heap[id] = heap[id]
                /\ phased.st.heap[id] = heap[id]

\* C17: every access restarts the expiry period: a session that get_session
\* hands out now is still handed out at any moment up to the timeout later.
C17_AccessRestartsExpiry ==
    \A id \in sessions :
        LET got == get_session(Store, id, now)
        IN  got.result /= 0 =>
                \A d \in 0..SessionTimeout :
                    get_session(got.st, id, now + d).result /= 0

\* C18: create_session adds exactly one session, under an id the store did
\* not hold, with an empty history, no profile and phase collection, and
\* leaves the sessions already there as they are.
C18_CreateAddsOneFreshSession ==
    LET made == create_session(Store, now)
        id == made.result
    IN  /\ id \notin sessions
        /\ made.st.sessions = sessions \cup {id}
        /\ made.st.heap[id].session_id = id
        /\ made.st.heap[id].conversation_history = <<>>
        /\ made.st.heap[id].user_profile = None
        /\ made.st.heap[id].current_phase = "collection"
        /\ OthersUntouched(Store, made.st, id)

\* A session was created next to one that holds a message.
C18_Witness ==
    \E r \in Reqs :
        /\ req[r].kind = "store.create" /\ req[r].result \in sessions
        /\ heap[req[r].result].conversation_history = <<>>
        /\ \E o \in sessions \ {req[r].result} :
               heap[o].conversation_history /= <<>>

\* C19: delete_session answers True exactly when the store holds the id;
\* after that get_session answers None for it; no other session is removed
\* or changed.
C19_DeleteRemovesOnlyThatSession ==
    \A id \in StoreIds :
        LET deleted == delete_session(Store, id)
        IN  /\ deleted.result <=> id \in sessions
            /\ deleted.result => get_session(deleted.st, id, now).result = 0
            /\ ~deleted.result => deleted.st = Store
            /\ OthersUntouched(Store, deleted.st, id)

\* A session was deleted and another one is still in the store.
C19_Witness ==
    \E r \in Reqs :
        /\ req[r].kind = "store.delete" /\ req[r].result = TRUE
        /\ req[r].session_id \notin sessions
        /\ sessions /= {}

\* ----------------------------------------- the engine, seen from outside
\* The messages the collaborators produced during the run wf, in order: one
\* AIMessage per agent call, one ToolMessage per tool call.
Outputs(wf) ==
    SubSeq(wf.state.messages, Len(wf.input.messages) + 1, Len(wf.state.messages))

ToolHandlers == {"handle_extraction_tool", "handle_search_tool"}

\* The transition table: the node that follows `node` once it produced out.
After(node, out) ==
    IF node \in Agents
    THEN IF out.tool_calls THEN HandlerOf(node) ELSE END
    ELSE "qa_agent"

\* The nodes that produce outs[i], outs[i+1], ... when `node` produces outs[i].
RECURSIVE ExpectedPath(_, _, _)
ExpectedPath(node, outs, i) ==
    IF i > Len(outs) THEN <<>>
    ELSE <<node>> \o ExpectedPath(After(node, outs[i]), outs, i + 1)

FirstAgent(phase) == IF phase = "qa" THEN "qa_agent" ELSE "collector_agent"

\* The extraction tool's results among the outputs (at most one per run).
ExtractionResults(wf) ==
    {i \in 1..Len(wf.path) : wf.path[i] = "handle_extraction_tool"}

IsPrefix(s, t) == Len(s) <= Len(t) /\ SubSeq(t, 1, Len(s)) = s

C25_MessagesGrowStateOverwritten ==
    /\ [][\A r \in Reqs :
            (req[r].pc = "run" /\ req'[r].pc = "run")
                => IsPrefix(req[r].wf.state.messages, req'[r].wf.state.messages)
         ]_vars
    /\ [](\A r \in Reqs :
            LET wf == req[r].wf
                messages == wf.state.messages
            IN  /\ \A i \in 1..Len(messages) :
                      add_messages(messages, <<messages[i]>>) = messages
                /\ \A i, j \in 1..Len(messages) :
                      messages[i].id = messages[j].id => i = j
                /\ wf.final /= None =>
                      /\ "user_profile" \in wf.final.update.keys
                            => wf.state.user_profile = wf.final.update.user_profile
                      /\ "phase" \in wf.final.update.keys
                            => wf.state.phase = wf.final.update.phase)

\* The extraction handler replaced the profile the caller sent by None.
C25_Witness ==
    \E r \in Reqs :
        /\ req[r].wf.node = "handle_extraction_tool"
        /\ req[r].wf.input.user_profile /= None
        /\ req[r].wf.state.user_profile = None
        /\ Len(req[r].wf.state.messages) = Len(req[r].wf.input.messages) + 2

\* C28: handle_extraction_tool is always followed by qa_agent, whether or
\* not the profile parsed, and so is handle_search_tool: never END, the
\* collector or a handler.
C28_HandlersLeadToResponder ==
    \A r \in Reqs :
        LET wf == req[r].wf
        IN  /\ wf.node \in ToolHandlers => wf.next = "qa_agent"
            /\ \A i \in 1..Len(wf.path) :
                  (wf.path[i] \in ToolHandlers /\ i < Len(wf.path))
                      => wf.path[i + 1] = "qa_agent"

\* qa_agent ran after an extraction that did not parse and after a search.
C28_Witness ==
    \E r \in Reqs :
        LET wf == req[r].wf
        IN  /\ Len(wf.path) >= 6
            /\ wf.path[3] = "handle_extraction_tool" /\ wf.path[4] = "qa_agent"
            /\ wf.path[5] = "handle_search_tool" /\ wf.path[6] = "qa_agent"
            /\ ExtractedInRun(wf) = {}

\* C29: only handle_extraction_tool changes profile or phase: a step of a
\* run in which another node ran leaves both as they were, and entry_point
\* also leaves the messages as they were.
C29_OnlyExtractionChangesProfileAndPhase ==
    [][\A r \in Reqs :
          (/\ req[r].pc = "run" /\ req'[r].pc = "run"
           /\ req'[r].wf.steps = req[r].wf.steps + 1)
              => /\ req'[r].wf.node /= "handle_extraction_tool"
                    => /\ req'[r].wf.state.user_profile = req[r].wf.state.user_profile
                       /\ req'[r].wf.state.phase = req[r].wf.state.phase
                 /\ req'[r].wf.node = "entry_point"
                    => req'[r].wf.state.messages = req[r].wf.state.messages
      ]_vars

\* The collector, the responder and the search handler ran with a profile
\* and phase qa in the state, which they left alone.
C29_Witness ==
    \E r \in Reqs :
        LET wf == req[r].wf
        IN  /\ Len(wf.path) >= 6 /\ wf.path[2] = "collector_agent"
            /\ wf.path[5] = "handle_search_tool"
            /\ wf.state.user_profile /= None /\ wf.state.phase = "qa"
            /\ wf.input.phase = "collection"

\* C30: when the last message is a HumanMessage right after the collector
\* (or the responder) ran, the engine runs that same node again: the edges
\* lead from the node back to itself.
C30_ReentrantRouting ==
    \A r \in Reqs :
        LET wf == req[r].wf
        IN  (wf.status /= "none" /\ Len(wf.state.messages) > 0
             /\ LastMessage(wf.state).type = "human")
                => /\ NextNode("collector_agent", wf.state) = "collector_agent"
                   /\ NextNode("qa_agent", wf.state) = "qa_agent"

\* ------------------------------------------------------- requests that race
\* The session fields that the step the handler is about to take reads while
\* it does not hold SessionStore._lock: get_langchain_messages iterates
\* conversation_history after get_session released the lock, and
\* stateful_chat reads current_phase and user_profile from the ChatSession
\* object it holds.
UnlockedReads(slot) ==
    CASE slot.pc = "build" -> {"conversation_history", "current_phase", "user_profile"}
      [] slot.pc = "update_profile" -> {"user_profile"}
      [] slot.pc = "update_phase" -> {"current_phase"}
      [] slot.pc = "respond" -> {"user_profile", "current_phase"}
      [] OTHER -> {}

\* C21: every read of a session's fields happens under the store's lock: no
\* request is ever about to read a field of its session without holding it.
C21_AllAccessUnderLock ==
    \A r \in Reqs : req[r].kind = "stateful" => UnlockedReads(req[r]) = {}

\* The turn of slot r on session id has been answered with 200.
ServedTurn(r, id) ==
    /\ req[r].kind = "stateful" /\ req[r].pc = "responded"
    /\ req[r].resp.status = 200 /\ req[r].session = id

\* What a session holds after the turn of slot, when it held before at its
\* start and nothing else touched it: the user message and the reply
\* appended, profile and phase replaced by those of the run when present.
AfterTurn(before, slot) ==
    [conversation_history |->
         before.conversation_history
             \o <<ChatMessage("user", "txt"), ChatMessage("assistant", slot.response_message)>>,
     user_profile |-> IF TruthyProfile(slot.updated_user_profile)
                      THEN slot.updated_user_profile ELSE before.user_profile,
     current_phase |-> IF TruthyStr(slot.workflow_phase)
                       THEN slot.workflow_phase ELSE before.current_phase]

\* The run of slot started from what the session held at the start of the
\* turn plus the turn's user message.
RanOn(before, slot) ==
    slot.wf.input =
        WorkflowState(
            convert_chat_history_to_langchain_messages(
                Append(before.conversation_history, ChatMessage("user", "txt"))),
            before.user_profile,
            IF TruthyStr(before.current_phase) THEN before.current_phase ELSE "collection")

\* C22: when the turns in flight for one session have all been answered,
\* the session holds what it would hold had they run one after the other in
\* some order: the second started from what the first left, and the session
\* is what the second left (each user message followed by its own reply).
C22_RacingTurnsAreSerial ==
    \A id \in sessions :
        (\A r \in Reqs : ServedTurn(r, id))
            => \E a, b \in Reqs :
                  /\ a /= b
                  /\ RanOn(req[a].before, req[a])
                  /\ req[b].before = AfterTurn(req[a].before, req[a])
                  /\ RanOn(req[b].before, req[b])
                  /\ Snapshot(heap[id]) = AfterTurn(req[b].before, req[b])

\* Both requests were answered for the same session, the first of them
\* having extracted the profile.
C22_Witness ==
    \E id \in sessions :
        /\ \A r \in Reqs : ServedTurn(r, id)
        /\ Len(heap[id].conversation_history) = 5
        /\ heap[id].user_profile /= None

\* C23: when turns for one session race, no step takes the session's phase
\* from qa to anything else: a turn that read collection before the other
\* turn moved the session to qa does not write collection back.
C23_RacingTurnsKeepQa ==
    [][\A id \in sessions :
          (heap[id].current_phase = "qa" /\ id \in sessions')
              => heap'[id].current_phase = "qa"
      ]_vars

\* Two turns on one session were answered: one moved the session to qa, the
\* other ended its run in collection or started in qa.
C23_Witness ==
    \E id \in sessions :
        /\ \A r \in Reqs : ServedTurn(r, id)
        /\ heap[id].current_phase = "qa"
        /\ \E a, b \in Reqs :
              /\ a /= b
              /\ req[a].before.current_phase = "collection"
              /\ req[a].workflow_phase = "qa"
              /\ req[b].wf.path = <<"entry_point", "qa_agent", "handle_search_tool", "qa_agent">>

\* C26: a session's profile, once present, is never changed or cleared by a
\* later step of any turn, and a profile is always a whole UserProfile.
C26_ProfileImmutableOncePresent ==
    /\ [][\A id \in sessions :
             (heap[id].user_profile /= None /\ id \in sessions')
                 => heap'[id].user_profile = heap[id].user_profile
         ]_vars
    /\ [](\A id \in sessions :
             heap[id].user_profile /= None => UserProfileValid(heap[id].user_profile))

\* A second turn was answered on a session whose profile the first turn
\* had extracted.
C26_Witness ==
    \E id \in sessions, r \in Reqs :
        /\ ServedTurn(r, id)
        /\ req[r].before.user_profile /= None
        /\ heap[id].user_profile = req[r].before.user_profile
        /\ Len(req[r].wf.path) >= 2

\* C27: a step of a request changes the history, the profile and the phase
\* of no session but the one the request names, and the run of a turn starts
\* from what its own session holds, whatever the other sessions hold.
C27_SessionsDoNotInterfere ==
    /\ [][\A id \in sessions :
             (id \in sessions' /\ Snapshot(heap'[id]) /= Snapshot(heap[id]))
                 => \E r \in Reqs :
                       /\ req[r].kind = "stateful" /\ req[r].session = id
                       /\ req'[r] /= req[r]
         ]_vars
    /\ [](\A r \in Reqs :
             (req[r].kind = "stateful" /\ req[r].pc = "run")
                 => RanOn([Snapshot(heap[req[r].session]) EXCEPT
                              !.conversation_history =
                                  SubSeq(@, 1, Len(@) - 1)],
                          req[r]))

\* Turns were answered on two sessions; each holds its own turn only and
\* they ended in different phases.
C27_Witness ==
    \E a, b \in Reqs :
        /\ req[a].session /= req[b].session
        /\ ServedTurn(a, req[a].session) /\ ServedTurn(b, req[b].session)
        /\ Len(heap[req[a].session].conversation_history) = 3
        /\ Len(heap[req[b].session].conversation_history) = 3
        /\ heap[req[a].session].current_phase = "qa"
        /\ heap[req[b].session].current_phase = "collection"

\* ------------------------------------------------- more on the engine's runs
\* How often node completed in the run wf.
Visits(wf, node) == Cardinality({i \in 1..Len(wf.path) : wf.path[i] = node})

\* C31: every completed call of collector_agent or qa_agent appends exactly
\* one message, an AIMessage, so the route after an agent never sees a
\* HumanMessage last: it leads to the agent's handler or to END, never back
\* to an agent through the re-entrant branch and never to a failed lookup.
C31_AgentsAppendOneAiMessage ==
    /\ [][\A r \in Reqs :
             (/\ req[r].pc = "run" /\ req'[r].pc = "run"
              /\ req'[r].wf.steps = req[r].wf.steps + 1
              /\ req'[r].wf.node \in Agents)
                 => /\ Len(req'[r].wf.state.messages) = Len(req[r].wf.state.messages) + 1
                    /\ LastMessage(req'[r].wf.state).type = "ai"
                    /\ IsPrefix(req[r].wf.state.messages, req'[r].wf.state.messages)
         ]_vars
    /\ [](\A r \in Reqs :
             req[r].wf.node \in Agents
                 => /\ LastMessage(req[r].wf.state).type = "ai"
                    /\ route_after_collector(req[r].wf.state) /= "collector_agent"
                    /\ route_after_qa(req[r].wf.state) /= "qa_agent"
                    /\ req[r].wf.next \in {HandlerOf(req[r].wf.node), END})

\* Both agents completed in one run that started from a user message.
C31_Witness ==
    \E r \in Reqs :
        /\ req[r].wf.status = "done"
        /\ Visits(req[r].wf, "collector_agent") = 1
        /\ Visits(req[r].wf, "qa_agent") >= 2
        /\ req[r].wf.input.messages[Len(req[r].wf.input.messages)].type = "human"

\* C36: in a run collector_agent and handle_extraction_tool (and
\* entry_point) complete at most once each, and not at all when the input
\* phase is qa; the nodes that complete more than once are qa_agent and
\* handle_search_tool only.
C36_CollectorAndExtractionAtMostOnce ==
    \A r \in Reqs :
        LET wf == req[r].wf
        IN  /\ Visits(wf, "collector_agent") <= 1
            /\ Visits(wf, "handle_extraction_tool") <= 1
            /\ Visits(wf, "entry_point") <= 1
            /\ wf.input.phase = "qa"
                  => /\ Visits(wf, "collector_agent") = 0
                     /\ Visits(wf, "handle_extraction_tool") = 0
            /\ \A i \in 2..Len(wf.path) :
                  wf.path[i] \in {"collector_agent", "handle_extraction_tool"} => i <= 3

\* A run in which the collector and the extraction handler ran once and the
\* responder and the search handler several times.
C36_Witness ==
    \E r \in Reqs :
        LET wf == req[r].wf
        IN  /\ Visits(wf, "collector_agent") = 1
            /\ Visits(wf, "handle_extraction_tool") = 1
            /\ Visits(wf, "qa_agent") >= 3
            /\ Visits(wf, "handle_search_tool") >= 2

\* How the handlers read a phase: an absent or empty one is collection.
ReadPhase(phase) == IF TruthyStr(phase) THEN phase ELSE "collection"

\* C38: the phase and the profile in the response of a successful turn are
\* those of the final state of the run (an absent phase read as collection),
\* although the handler takes them from the last node's update only; a run
\* in which handle_extraction_tool completed reports phase qa.
C38_ResponseReportsFinalState ==
    \A r \in Reqs :
        (/\ req[r].kind \in {"chat", "stateful"} /\ req[r].pc = "responded"
         /\ req[r].resp.status = 200)
            => /\ req[r].resp.phase = ReadPhase(req[r].wf.state.phase)
               /\ req[r].resp.user_profile = req[r].wf.state.user_profile
               /\ Visits(req[r].wf, "handle_extraction_tool") > 0
                     => req[r].resp.phase = "qa"

\* A stateful turn whose run extracted a profile, searched and answered was
\* reported with that profile and phase qa.
C38_Witness ==
    \E r \in Reqs :
        /\ req[r].kind = "stateful" /\ req[r].pc = "responded"
        /\ req[r].resp.status = 200
        /\ Visits(req[r].wf, "handle_extraction_tool") = 1
        /\ req[r].wf.final.node = "qa_agent"
        /\ req[r].resp.user_profile /= None /\ req[r].resp.phase = "qa"

\* ------------------------------------------------ the sweep and the search
\* C33: cleanup_expired_sessions removes exactly the sessions whose last
\* activity is older than the timeout (one whose age equals the timeout
\* stays), returns their number, and leaves every other session as it is.
C33_CleanupRemovesExactlyExpired ==
    LET swept == cleanup_expired_sessions(Store, now)
        old == {id \in sessions : now - heap[id].last_activity > SessionTimeout}
    IN  /\ swept.st.sessions = sessions \ old
        /\ swept.result = Cardinality(old)
        /\ \A id \in sessions \ old : swept.st.heap[id] = heap[id]
        /\ cleanup_expired_sessions(swept.st, now).result = 0

\* The sweep removes one session and keeps another, which holds a message.
C33_Witness ==
    \E gone, kept \in sessions :
        /\ cleanup_expired_sessions(Store, now).st.sessions = sessions \ {gone}
        /\ cleanup_expired_sessions(Store, now).result = 1
        /\ gone /= kept
        /\ Len(heap[kept].conversation_history) > 0

\* The numbers of results a caller may ask for.
Ks == -1..(MaxIndex + 1)

\* C34: search returns at most k results and never more than the index
\* holds, each a different document of the index; it returns the empty list
\* when no index is loaded or when the embedding or the lookup raises; with
\* the default k it returns at most 5.
C34_SearchReturnsAtMostK ==
    \A raises \in {req[r].search_raises : r \in Reqs}, ntotal \in 0..MaxIndex :
        /\ \A k \in Ks :
              LET results == search_top_k(index_loaded, ntotal, k, raises)
              IN  /\ Len(results) <= Max({k, 0})
                  /\ Len(results) <= ntotal
                  /\ \A i, j \in 1..Len(results) :
                        /\ results[i] \in 1..ntotal
                        /\ results[i] = results[j] => i = j
                  /\ (~index_loaded \/ raises) => results = <<>>
        /\ LET top == search_top_k(index_loaded, ntotal, DefaultK, raises)
           IN  /\ Len(top) <= DefaultK
               /\ ntotal > 0 => ((search(index_loaded, raises) = <<>>) <=> (top = <<>>))

\* The search handler ran against a loaded index that holds more than the
\* default k vectors and returned exactly k of them; and a lookup that raised
\* gave nothing.
C34_Witness ==
    \E r \in Reqs :
        /\ index_loaded /\ req[r].wf.node = "handle_search_tool"
        /\ ~req[r].search_raises
        /\ MaxIndex > DefaultK
        /\ Len(search_top_k(index_loaded, MaxIndex, DefaultK, req[r].search_raises)) = DefaultK
        /\ search_top_k(index_loaded, MaxIndex, DefaultK, TRUE) = <<>>

\* ------------------------------------------------- the history of a session
\* C32: a successful stateful turn leaves its session with the history it
\* found (plus the welcome when the turn created the session), followed by
\* the user's message and one assistant reply; a stored history holds user
\* and assistant messages only; and the run of a turn starts from the stored
\* history, in order, ending with the turn's user message.
C32_TurnAppendsUserAndReply ==
    /\ \A r \in Reqs :
          (/\ req[r].kind = "stateful" /\ req[r].pc = "responded"
           /\ req[r].resp.status = 200)
              => LET id == req[r].session
                     found == IF req[r].session_id = 0
                              THEN <<ChatMessage("assistant", WelcomeText)>>
                              ELSE req[r].before.conversation_history
                 IN  /\ id \in sessions
                     /\ heap[id].conversation_history =
                            found \o <<ChatMessage("user", "txt"),
                                       ChatMessage("assistant", req[r].response_message)>>
    /\ \A id \in sessions :
          \A i \in 1..Len(heap[id].conversation_history) :
              heap[id].conversation_history[i].role \in {"user", "assistant"}
    /\ \A r \in Reqs :
          (req[r].kind = "stateful" /\ req[r].pc = "run")
              => /\ req[r].wf.input.messages =
                        convert_chat_history_to_langchain_messages(
                            heap[req[r].session].conversation_history)
                 /\ Len(req[r].wf.input.messages) > 0
                 /\ req[r].wf.input.messages[Len(req[r].wf.input.messages)]
                        = HumanMessage("txt")
                 /\ \A i \in 1..Len(req[r].wf.input.messages) :
                        req[r].wf.input.messages[i].type \in {"human", "ai"}
                        /\ ~req[r].wf.input.messages[i].tool_calls

\* A second turn on a session was answered: the history of the first turn
\* is followed by the second user message and its reply.
C32_Witness ==
    \E r \in Reqs :
        /\ req[r].kind = "stateful" /\ req[r].pc = "responded"
        /\ req[r].resp.status = 200 /\ req[r].session_id /= 0
        /\ Len(req[r].before.conversation_history) = 3
        /\ Len(heap[req[r].session].conversation_history) = 5
        /\ Len(req[r].wf.state.messages) > Len(req[r].wf.input.messages) + 1

\* ------------------------------------------------------ what others can see
\* The session id holds a profile while its phase is not qa.
HalfUpdated(id) == heap[id].user_profile /= None /\ heap[id].current_phase /= "qa"

Gone == DOMAIN heap \ sessions

\* C37: a session that was removed from the store never comes back: no step
\* puts a removed id into the dict again, every store operation on a removed
\* id reports failure and leaves the store as it is, and so do the
\* write-backs of a turn whose session was deleted while it was in flight.
C37_DeletedNeverReappears ==
    /\ [][\A id \in Gone : id \notin sessions']_vars
    /\ [](\A id \in Gone :
             LET no == [st |-> Store, result |-> FALSE]
             IN  /\ add_message_to_session(Store, id, ChatMessage("assistant", "txt"), now) = no
                 /\ update_session_profile(Store, id, UserProfile(ProfileData(Fields, "Dana")), now) = no
                 /\ update_session_phase(Store, id, "qa", now) = no
                 /\ update_session_activity(Store, id, now) = no
                 /\ delete_session(Store, id) = no
                 /\ get_session(Store, id, now) = [st |-> Store, result |-> 0]
                 /\ create_session(Store, now).result /= id)

\* A turn has made its three write-backs after its session was deleted:
\* the session is not in the store, and the object the handler holds has
\* neither the extracted profile nor the reply.
C37_Witness ==
    \E r, d \in Reqs :
        /\ req[r].kind = "stateful" /\ req[r].pc = "respond"
        /\ req[r].session \in Gone
        /\ req[d].kind = "delete" /\ req[d].resp.status = 200
        /\ req[d].session_id = req[r].session
        /\ req[r].updated_user_profile /= None
        /\ heap[req[r].session].user_profile = None
        /\ heap[req[r].session].current_phase = "collection"
        /\ LET history == heap[req[r].session].conversation_history
           IN  history[Len(history)] = ChatMessage("user", "txt")

====
